---- MODULE Spec2Model ----
(***************************************************************************)
(* Model of the EditableGrid component (app/components/EditableGrid.tsx):  *)
(* the change overlay `changes`, the handlers that rewrite it, the merged  *)
(* view `effectiveRowData`, and React's render cycle, which decides which  *)
(* value of `changes` a handler closes over.                               *)
(***************************************************************************)
EXTENDS Integers, Sequences, FiniteSets, TLC

(***************************************************************************)
(* JavaScript values.  A primitive is a pair <<type, n>>.  The string      *)
(* <<"string", n>> with n >= 0 is the decimal numeral of n ('1', '4'); with *)
(* n < 0 it is a string that is not a numeral ('a', 'undefined').          *)
(***************************************************************************)
Num(n) == <<"number", n>>
Str(n) == <<"string", n>>
Bool(n) == <<"boolean", n>>
Undefined == <<"undefined", 0>>
StrA == Str(-1)
StrUndefined == Str(-2)

\* String(v): the property key a value is coerced to by changes[id]
String(v) ==
  IF v[1] = "number" THEN Str(v[2])
  ELSE IF v[1] = "undefined" THEN StrUndefined
  ELSE v

\* canonical array-index keys are enumerated first, in ascending order
IsArrayIndex(k) == k[1] = "string" /\ k[2] >= 0

(***************************************************************************)
(* Rows: a JS object is the sequence of its <<field, value>> pairs in own-  *)
(* property order (field names are never array indices).                   *)
(***************************************************************************)
idField == "id"

HasField(row, f) == \E i \in 1..Len(row) : row[i][1] = f

RowGet(row, f) ==
  IF HasField(row, f)
  THEN row[CHOOSE i \in 1..Len(row) : row[i][1] = f][2]
  ELSE Undefined

\* row[f] = v : an existing field keeps its place, a new one goes last
RowSet(row, f, v) ==
  IF HasField(row, f)
  THEN [i \in 1..Len(row) |-> IF row[i][1] = f THEN <<f, v>> ELSE row[i]]
  ELSE Append(row, <<f, v>>)

RowDelete(row, f) == SelectSeq(row, LAMBDA p : p[1] # f)

MkRow(id, age, active) == << <<"id", id>>, <<"age", Num(age)>>, <<"active", Bool(active)>> >>

Null == << >>

getRowId(row) == RowGet(row, idField)

\* JSON.stringify of a row: the fields in order, undefined values left out
JSONstringify(row) == SelectSeq(row, LAMBDA p : p[2] # Undefined)

deepEqual(obj1, obj2) == JSONstringify(obj1) = JSONstringify(obj2)

(***************************************************************************)
(* ChangeState: the object `changes`, as the sequence of <<key, mod>> in   *)
(* own-property order: array-index keys ascending, then the other keys in  *)
(* insertion order.                                                        *)
(***************************************************************************)
Added == "added"
Modified == "modified"
Deleted == "deleted"

Modification(type, data) == [type |-> type, data |-> data]

\* changes[id] when there is no such key (type is undefined)
NoMod == [type |-> "none", data |-> Null]

Keys(c) == {c[i][1] : i \in 1..Len(c)}

HasKey(c, k) == k \in Keys(c)

\* c[id]
ChangesGet(c, id) ==
  IF HasKey(c, String(id))
  THEN c[CHOOSE i \in 1..Len(c) : c[i][1] = String(id)][2]
  ELSE NoMod

\* where a new key k is enumerated
InsertAt(c, k) ==
  IF IsArrayIndex(k)
  THEN 1 + Cardinality({i \in 1..Len(c) : IsArrayIndex(c[i][1]) /\ c[i][1][2] < k[2]})
  ELSE Len(c) + 1

\* draft[id] = m
ChangesSet(c, id, m) ==
  LET k == String(id) IN
  IF HasKey(c, k)
  THEN [i \in 1..Len(c) |-> IF c[i][1] = k THEN <<k, m>> ELSE c[i]]
  ELSE LET p == InsertAt(c, k) IN
       [i \in 1..(Len(c) + 1) |->
          IF i < p THEN c[i] ELSE IF i = p THEN <<k, m>> ELSE c[i - 1]]

\* delete draft[id]
ChangesDelete(c, id) == SelectSeq(c, LAMBDA e : e[1] # String(id))

(***************************************************************************)
(* effectiveRowData: the rows handed to the grid.                          *)
(***************************************************************************)
AddedEntries(c) ==
  SelectSeq(c, LAMBDA e : e[2].type = Added /\ e[2].data # Null)

effectiveRowDataHidesDeleted(rd, c) ==
  SelectSeq([i \in 1..Len(rd) |->
               LET mod == ChangesGet(c, getRowId(rd[i])) IN
               IF mod.type = Modified /\ mod.data # Null THEN mod.data ELSE rd[i]],
            LAMBDA row : ChangesGet(c, getRowId(row)).type # Deleted)
  \o [i \in 1..Len(AddedEntries(c)) |-> AddedEntries(c)[i][2].data]

effectiveRowData(rd, c) ==
  [i \in 1..Len(rd) |->
     LET mod == ChangesGet(c, getRowId(rd[i])) IN
     IF mod.type = Modified /\ mod.data # Null THEN mod.data ELSE rd[i]]
  \o [i \in 1..Len(AddedEntries(c)) |-> AddedEntries(c)[i][2].data]

getRowModificationState(c, row) == ChangesGet(c, getRowId(row)).type

\* undoCellRenderer: whether the cell of row holds the Undo button
undoCellRendererModifiedOnly(c, row) ==
  getRowModificationState(c, row) = Modified

undoCellRenderer(c, row) == getRowModificationState(c, row) # "none"

(***************************************************************************)
(* Callbacks handed to modifySelectedRows: <<kind, field, value>>.         *)
(***************************************************************************)
Noop == <<"noop", "", Undefined>>
SetField(f, v) == <<"set", f, v>>
Toggle(f) == <<"toggle", f, Undefined>>
\* row => { const v = row[f]; delete row[f]; row[f] = v; }
MoveLast(f) == <<"move", f, Undefined>>

\* the callback run on a draft of the row
Apply(cb, row) ==
  IF cb[1] = "set" THEN RowSet(row, cb[2], cb[3])
  ELSE IF cb[1] = "toggle"
       THEN RowSet(row, cb[2], Bool(1 - RowGet(row, cb[2])[2]))
  ELSE IF cb[1] = "move"
       THEN RowSet(RowDelete(row, cb[2]), cb[2], RowGet(row, cb[2]))
  ELSE row

\* Immer swaps in a copy-on-write draft, so the object passed as base is
\* left as it was
produceBaseInPlace(base, recipe) == Apply(recipe, base)
produceBase(base, recipe) == base

\* produce(base, recipe): the next state
produce(base, recipe) == Apply(recipe, base)

(***************************************************************************)
(* Bounds and inputs.                                                      *)
(***************************************************************************)
NumNewRows == 2

\* mockInitialData of the tests, two rows of it
mockInitialData == << MkRow(Str(1), 28, 1), MkRow(Str(2), 35, 0) >>

NewRowPool ==
  << MkRow(Str(4), 28, 0), MkRow(Str(3), 28, 1), MkRow(Num(1), 28, 1),
     MkRow(StrA, 28, 0), MkRow(Str(10), 28, 1) >>

NewRows == {NewRowPool[i] : i \in 1..NumNewRows}

\* cell edits <<field, newValue>>: to a new value, and back to row 1's own
Edits == { <<"age", Num(99)>>, <<"age", Num(28)>> }

Callbacks == {Noop} \cup {SetField(e[1], e[2]) : e \in Edits}

\* rows a host can hand to addRow unchecked: a copy of the first base row,
\* and a row without the identity field
EdgeRows == { mockInitialData[1], RowDelete(NewRowPool[1], idField) }

\* a host that edits two fields of a row: cell edits of age (Edits) and the
\* page's toggle of the boolean field, with one added row
FieldRows == { NewRowPool[1] }

FieldCallbacks == { Toggle("active") }

\* a host whose callbacks write the identity field: the number 1, whose
\* string form is the identity of the first base row, and a fresh identity
IdRows == { NewRowPool[1] }

IdCallbacks == { SetField(idField, Num(1)), SetField(idField, Str(9)) }

\* callbacks that write a new value, and that re-create a field in place
EdgeCallbacks == { SetField("age", Num(99)), MoveLast("age") }

(***************************************************************************)
(* The demo page (app/page.tsx).  A name is the sequence of its characters; *)
(* as an identity it is the non-numeral string Str(-(2 + n)), n its place  *)
(* in NameTable.  The page's rows are {name, age, vegetarian} with idField  *)
(* 'name': here the identity field holds the name and the boolean field    *)
(* holds vegetarian.                                                       *)
(***************************************************************************)
Alice == <<"A", "l", "i", "c", "e">>
Bob == <<"B", "o", "b">>
Zed == <<"Z", "e", "d">>

NameTable == << Alice, Bob, Zed >>

NameId(name) == Str(-(2 + CHOOSE n \in 1..Len(NameTable) : NameTable[n] = name))

\* String.prototype.toLowerCase, on the letters in use
LowerChar(ch) ==
  IF ch = "A" THEN "a" ELSE IF ch = "B" THEN "b" ELSE IF ch = "Z" THEN "z" ELSE ch

toLowerCase(str) == [i \in 1..Len(str) |-> LowerChar(str[i])]

\* String.prototype.trim
trim(str) ==
  LET inked == {i \in 1..Len(str) : str[i] # " "} IN
  IF inked = {} THEN << >>
  ELSE SubSeq(str, CHOOSE i \in inked : \A j \in inked : i <= j,
                   CHOOSE i \in inked : \A j \in inked : i >= j)

\* INITIAL_DATA, two rows of it
INITIAL_NAMES == << Alice, Bob >>

INITIAL_DATA == << MkRow(NameId(Alice), 28, 1), MkRow(NameId(Bob), 35, 0) >>

\* what window.prompt returns: null on cancel, the typed text otherwise
PromptCancel == [null |-> TRUE, text |-> << >>]
PromptText(str) == [null |-> FALSE, text |-> str]

PromptResults ==
  { PromptCancel, PromptText(<< >>), PromptText(<<" ">>), PromptText(Zed),
    PromptText(Alice), PromptText(toLowerCase(Alice)),
    PromptText(<<" ">> \o Alice) }

\* the checks of handleAddRow that end with an alert and a return
handleAddRowRejects(name) ==
  \/ name.null \/ name.text = << >>
  \/ trim(name.text) = << >>
  \/ \E i \in 1..Len(INITIAL_NAMES) :
        toLowerCase(INITIAL_NAMES[i]) = toLowerCase(name.text)

\* the row handleAddRow builds
pageNewRow(name) == MkRow(NameId(trim(name.text)), 0, 0)

(***************************************************************************)
(* State.                                                                  *)
(***************************************************************************)
VARIABLES
  rowData,      \* the rowData prop: the caller's array of rows
  changes,      \* `changes` as closed over by the handlers of the last render
  nextChanges,  \* the value last given to setChanges: what the next render reads
  gridApi,      \* `gridApi` as closed over by the handlers of the last render
  nextGridApi,  \* the value last given to setGridApi
  selected,     \* node ids of the rows selected in the grid
  last          \* the handler call just made, if the last step was one

vars == <<rowData, changes, nextChanges, gridApi, nextGridApi, selected, last>>

\* a handler call: the positions of the displayed rows it was given (or the
\* row given to addRow), its callback or cell edit, and how many times it
\* called onChange and with which argument.  It read `changes` and left
\* nextChanges.
NoCall ==
  [op |-> "none", pos |-> {}, row |-> << >>, arg |-> <<"noop", "", Undefined>>,
   calls |-> 0, snapshot |-> << >>]

Call(op, pos, row, arg, calls) ==
  [op |-> op, pos |-> pos, row |-> row, arg |-> arg, calls |-> calls,
   snapshot |-> << >>]

Init ==
  /\ rowData = mockInitialData
  /\ changes = << >>
  /\ nextChanges = << >>
  /\ gridApi = FALSE
  /\ nextGridApi = FALSE
  /\ selected = {}
  /\ last = NoCall

\* the rows the grid holds: effectiveRowData of the last render
Displayed == effectiveRowData(rowData, changes)

NodeId(row) == String(getRowId(row))

\* getChanges() of the handle
getChanges == changes

\* nothing is waiting for a render.  Clicks and cell edits come from the
\* browser's event loop, which React's scheduled render precedes; the methods
\* of the handle can be called back to back by the host
Rendered == changes = nextChanges /\ gridApi = nextGridApi

(***************************************************************************)
(* Render cycle.                                                           *)
(***************************************************************************)
\* onGridReady: setGridApi(event.api)
GridReady ==
  /\ ~nextGridApi
  /\ nextGridApi' = TRUE
  /\ last' = NoCall
  /\ UNCHANGED <<rowData, changes, nextChanges, gridApi, selected>>

\* React re-renders: the handlers are rebuilt over the current state and the
\* grid receives the new effectiveRowData; nodes that are gone lose selection
Render ==
  /\ changes # nextChanges \/ gridApi # nextGridApi
  /\ changes' = nextChanges
  /\ gridApi' = nextGridApi
  /\ LET rows == effectiveRowData(rowData, nextChanges) IN
     selected' = selected \cap {NodeId(rows[i]) : i \in 1..Len(rows)}
  /\ last' = NoCall
  /\ UNCHANGED <<rowData, nextChanges, nextGridApi>>

\* the user ticks or unticks the checkbox of a displayed row
ToggleSelection ==
  /\ Rendered
  /\ gridApi
  /\ LET rows == Displayed IN
     \E k \in {NodeId(rows[i]) : i \in 1..Len(rows)} :
       selected' = IF k \in selected THEN selected \ {k} ELSE selected \cup {k}
  /\ last' = NoCall
  /\ UNCHANGED <<rowData, changes, nextChanges, gridApi, nextGridApi>>

(***************************************************************************)
(* updateChanges(newChanges): setChanges, then onChange.                   *)
(***************************************************************************)
updateChangesStaleSnapshot(op, pos, row, arg, newChanges) ==
  /\ nextChanges' = newChanges
  /\ last' = [Call(op, pos, row, arg, 1) EXCEPT !.snapshot = changes]

updateChanges(op, pos, row, arg, newChanges) ==
  /\ nextChanges' = newChanges
  /\ last' = [Call(op, pos, row, arg, 1) EXCEPT !.snapshot = newChanges]

\* addRow(row)
addRowResultKeepsExisting(c, row) ==
  IF HasKey(c, String(getRowId(row))) THEN c
  ELSE ChangesSet(c, getRowId(row), Modification(Added, row))

addRowResult(c, row) ==
  ChangesSet(c, getRowId(row), Modification(Added, row))

addRowOf(rows) ==
  \E row \in rows :
    /\ updateChanges("addRow", {}, row, Noop, addRowResult(changes, row))
    /\ UNCHANGED <<rowData, changes, gridApi, nextGridApi, selected>>

addRow == addRowOf(NewRows)

addRowEdge == addRowOf(EdgeRows)

addRowFields == addRowOf(FieldRows)

\* the page's Add Row button, clicked by the user
handleAddRow ==
  /\ Rendered
  /\ \E name \in PromptResults :
       IF handleAddRowRejects(name)
       THEN /\ last' = Call("handleAddRow", {}, Null, Noop, 0)
            /\ UNCHANGED <<rowData, changes, nextChanges, gridApi, nextGridApi, selected>>
       ELSE addRowOf({pageNewRow(name)})

addRowIds == addRowOf(IdRows)

\* undoRow(row), reached from the Undo button of a row that shows one
undoRowKeepsDeleted(c, row) ==
  IF ChangesGet(c, getRowId(row)).type = Deleted THEN c
  ELSE ChangesDelete(c, getRowId(row))

undoRowClearsWhenAbsent(c, row) ==
  IF HasKey(c, String(getRowId(row))) THEN ChangesDelete(c, getRowId(row))
  ELSE << >>

undoRowResult(c, row) == ChangesDelete(c, getRowId(row))

\* undoRow(row) for a displayed row: from its Undo button (viaButton), or
\* called on any displayed row
undoRowOn(viaButton) ==
  /\ Rendered
  /\ LET rows == Displayed IN
     \E i \in 1..Len(rows) :
       /\ viaButton => undoCellRenderer(changes, rows[i])
       /\ updateChanges("undoRow", {i}, Null, Noop,
                        undoRowResult(changes, rows[i]))
  /\ UNCHANGED <<rowData, changes, gridApi, nextGridApi, selected>>

undoRow == undoRowOn(TRUE)

undoRowDirect == undoRowOn(FALSE)

\* reset()
resetKeepsAdded ==
  /\ updateChanges("reset", {}, Null, Noop, AddedEntries(changes))
  /\ UNCHANGED <<rowData, changes, gridApi, nextGridApi, selected>>

resetUnlessSelection ==
  /\ updateChanges("reset", {}, Null, Noop,
                   IF selected = {} THEN << >> ELSE changes)
  /\ UNCHANGED <<rowData, changes, gridApi, nextGridApi, selected>>

reset ==
  /\ updateChanges("reset", {}, Null, Noop, << >>)
  /\ UNCHANGED <<rowData, changes, gridApi, nextGridApi, selected>>

(***************************************************************************)
(* gridApi.getSelectedRows(): the data of the selected nodes.  A node id   *)
(* carried by two displayed rows resolves to either of them.               *)
(***************************************************************************)
SelectedPositions(rows) ==
  LET ids == [i \in 1..Len(rows) |-> NodeId(rows[i])] IN
  {P \in SUBSET {i \in 1..Len(rows) : ids[i] \in selected} :
     \A k \in selected : Cardinality({i \in P : ids[i] = k}) = 1}

RowsAt(rows, P) ==
  LET idx == SelectSeq([i \in 1..Len(rows) |-> i], LAMBDA i : i \in P) IN
  [j \in 1..Len(idx) |-> rows[idx[j]]]

\* the displayed row at position i is the object rowData[i] itself
IsOriginalObject(i) ==
  /\ i <= Len(rowData)
  /\ LET mod == ChangesGet(changes, getRowId(rowData[i])) IN
     ~(mod.type = Modified /\ mod.data # Null)

(***************************************************************************)
(* deleteSelectedRows()                                                    *)
(***************************************************************************)
deleteStepMarksAdded(draft, row) ==
  ChangesSet(draft, getRowId(row), Modification(Deleted, Null))

deleteStepKeepsData(draft, row) ==
  IF ChangesGet(draft, getRowId(row)).type = Added
  THEN ChangesDelete(draft, getRowId(row))
  ELSE ChangesSet(draft, getRowId(row),
                  Modification(Deleted, ChangesGet(draft, getRowId(row)).data))

deleteStepDropsOthers(draft, row) ==
  IF ChangesGet(draft, getRowId(row)).type = Added
  THEN ChangesDelete(draft, getRowId(row))
  ELSE ChangesSet(<< >>, getRowId(row), Modification(Deleted, Null))

deleteStepTogglesDeleted(draft, row) ==
  IF ChangesGet(draft, getRowId(row)).type \in {Added, Deleted}
  THEN ChangesDelete(draft, getRowId(row))
  ELSE ChangesSet(draft, getRowId(row), Modification(Deleted, Null))

deleteStep(draft, row) ==
  IF ChangesGet(draft, getRowId(row)).type = Added
  THEN ChangesDelete(draft, getRowId(row))
  ELSE ChangesSet(draft, getRowId(row), Modification(Deleted, Null))

RECURSIVE deleteLoop(_, _)
deleteLoopEmptyClears(draft, selectedRows) ==
  IF selectedRows = << >> THEN << >>
  ELSE deleteLoop(deleteStep(draft, Head(selectedRows)), Tail(selectedRows))

deleteLoop(draft, selectedRows) ==
  IF selectedRows = << >> THEN draft
  ELSE deleteLoop(deleteStep(draft, Head(selectedRows)), Tail(selectedRows))

deleteSelectedRowsNoReadyGuard ==
  IF ~gridApi
     THEN /\ updateChanges("deleteSelectedRows", {}, Null, Noop, changes)
          /\ UNCHANGED <<rowData, changes, gridApi, nextGridApi, selected>>
     ELSE \E P \in SelectedPositions(Displayed) :
            /\ updateChanges("deleteSelectedRows", P, Null, Noop,
                             deleteLoop(changes, RowsAt(Displayed, P)))
            /\ selected' = {}
            /\ UNCHANGED <<rowData, changes, gridApi, nextGridApi>>

deleteSelectedRows ==
  IF ~gridApi
     THEN /\ last' = Call("deleteSelectedRows", {}, Null, Noop, 0)
          /\ UNCHANGED <<rowData, changes, nextChanges, gridApi, nextGridApi, selected>>
     ELSE \E P \in SelectedPositions(Displayed) :
            /\ updateChanges("deleteSelectedRows", P, Null, Noop,
                             deleteLoop(changes, RowsAt(Displayed, P)))
            /\ selected' = {}
            /\ UNCHANGED <<rowData, changes, gridApi, nextGridApi>>

(***************************************************************************)
(* modifySelectedRows(callback)                                            *)
(***************************************************************************)
\* rowData.find(r => getRowId(r) === id)
HasOriginalRow(rd, id) == \E i \in 1..Len(rd) : getRowId(rd[i]) = id

OriginalRow(rd, id) ==
  rd[CHOOSE i \in 1..Len(rd) :
       /\ getRowId(rd[i]) = id
       /\ \A j \in 1..(i - 1) : getRowId(rd[j]) # id]

reconcileNoRevert(draft, rd, id, newRow) ==
  IF HasOriginalRow(rd, id)
  THEN ChangesSet(draft, id, Modification(Modified, newRow))
  ELSE draft

\* the branch taken for a row that is not 'added': compare with the original
reconcile(draft, rd, id, newRow) ==
  IF HasOriginalRow(rd, id) /\ ~deepEqual(OriginalRow(rd, id), newRow)
  THEN ChangesSet(draft, id, Modification(Modified, newRow))
  ELSE IF HasOriginalRow(rd, id) /\ deepEqual(OriginalRow(rd, id), newRow)
  THEN ChangesDelete(draft, id)
  ELSE draft

modifyStepNoAddedBranch(draft, rd, selectedRow, callback) ==
  LET id == getRowId(selectedRow)
      currentMod == ChangesGet(draft, id)
      modifiedRow == produce(selectedRow, callback)
  IN
  IF currentMod.type = Deleted THEN draft
  ELSE reconcile(draft, rd, id, modifiedRow)

modifyStepEditsDeleted(draft, rd, selectedRow, callback) ==
  LET id == getRowId(selectedRow)
      currentMod == ChangesGet(draft, id)
      modifiedRow == produce(selectedRow, callback)
  IN
  IF currentMod.type = Added
  THEN IF ~deepEqual(selectedRow, modifiedRow)
       THEN ChangesSet(draft, id, Modification(Added, modifiedRow))
       ELSE draft
  ELSE reconcile(draft, rd, id, modifiedRow)

modifyStep(draft, rd, selectedRow, callback) ==
  LET id == getRowId(selectedRow)
      currentMod == ChangesGet(draft, id)
      modifiedRow == produce(selectedRow, callback)
  IN
  IF currentMod.type = Deleted THEN draft
  ELSE IF currentMod.type = Added
  THEN IF ~deepEqual(selectedRow, modifiedRow)
       THEN ChangesSet(draft, id, Modification(Added, modifiedRow))
       ELSE draft
  ELSE reconcile(draft, rd, id, modifiedRow)

RECURSIVE modifyLoop(_, _, _, _)
modifyLoop(draft, rd, selectedRows, callback) ==
  IF selectedRows = << >> THEN draft
  ELSE modifyLoop(modifyStep(draft, rd, Head(selectedRows), callback),
                  rd, Tail(selectedRows), callback)

modifySelectedRowsOf(callbacks) ==
  \E callback \in callbacks :
    IF ~gridApi
    THEN /\ last' = Call("modifySelectedRows", {}, Null, callback, 0)
         /\ UNCHANGED <<rowData, changes, nextChanges, gridApi, nextGridApi, selected>>
    ELSE \E P \in SelectedPositions(Displayed) :
           /\ updateChanges("modifySelectedRows", P, Null, callback,
                            modifyLoop(changes, rowData, RowsAt(Displayed, P), callback))
           /\ rowData' = [i \in 1..Len(rowData) |->
                IF i \in P /\ IsOriginalObject(i)
                           /\ ChangesGet(changes, getRowId(rowData[i])).type # Deleted
                THEN produceBase(rowData[i], callback)
                ELSE rowData[i]]
           /\ UNCHANGED <<changes, gridApi, nextGridApi, selected>>

modifySelectedRows == modifySelectedRowsOf(Callbacks)

modifySelectedRowsEdge == modifySelectedRowsOf(EdgeCallbacks)

modifySelectedRowsFields == modifySelectedRowsOf(FieldCallbacks)

modifySelectedRowsIds == modifySelectedRowsOf(IdCallbacks)

(***************************************************************************)
(* onCellEditRequest(event)                                                *)
(***************************************************************************)
cellEditResultStoresPatch(c, rd, row, field, newValue) ==
  LET id == getRowId(row)
      updatedRow == RowSet(row, field, newValue)
      patch == << <<idField, id>>, <<field, newValue>> >>
  IN
  IF ChangesGet(c, id).type = Added
  THEN ChangesSet(c, id, Modification(Added, patch))
  ELSE IF HasOriginalRow(rd, id) /\ ~deepEqual(OriginalRow(rd, id), updatedRow)
  THEN ChangesSet(c, id, Modification(Modified, patch))
  ELSE reconcile(c, rd, id, updatedRow)

cellEditResultReinserts(c, rd, row, field, newValue) ==
  LET id == getRowId(row)
      updatedRow == RowSet(row, field, newValue)
  IN
  IF ChangesGet(c, id).type = Added
  THEN ChangesSet(ChangesDelete(c, id), id, Modification(Added, updatedRow))
  ELSE reconcile(c, rd, id, updatedRow)

cellEditResult(c, rd, row, field, newValue) ==
  LET id == getRowId(row)
      updatedRow == RowSet(row, field, newValue)
  IN
  IF ChangesGet(c, id).type = Added
  THEN ChangesSet(c, id, Modification(Added, updatedRow))
  ELSE reconcile(c, rd, id, updatedRow)

onCellEditRequestOf(edits) ==
  /\ Rendered
  /\ LET rows == Displayed IN
     \E i \in 1..Len(rows), e \in edits :
       IF ChangesGet(changes, getRowId(rows[i])).type = Deleted
       THEN /\ last' = Call("onCellEditRequest", {i}, Null,
                            SetField(e[1], e[2]), 0)
            /\ UNCHANGED nextChanges
       ELSE updateChanges("onCellEditRequest", {i}, Null, SetField(e[1], e[2]),
                          cellEditResult(changes, rowData, rows[i], e[1], e[2]))
  /\ UNCHANGED <<rowData, changes, gridApi, nextGridApi, selected>>

onCellEditRequest == onCellEditRequestOf(Edits)

\* the page's editable age column
onCellEditRequestPage == onCellEditRequestOf({ <<"age", Num(99)>> })

\* the overlay a handler hands to updateChanges, from the overlay it read,
\* the base rows and its payload: the rows it was given (selectedRows, the row
\* of the button or of the cell, the row to add) and its callback or cell edit
HandlerResult(op, c, rd, rows, row, arg) ==
  CASE op = "addRow" -> addRowResult(c, row)
    [] op = "undoRow" -> undoRowResult(c, rows[1])
    [] op = "reset" -> << >>
    [] op = "deleteSelectedRows" -> deleteLoop(c, rows)
    [] op = "modifySelectedRows" -> modifyLoop(c, rd, rows, arg)
    [] op = "onCellEditRequest" -> cellEditResult(c, rd, rows[1], arg[2], arg[3])

Next ==
  \/ GridReady
  \/ Render
  \/ ToggleSelection
  \/ addRow
  \/ deleteSelectedRows
  \/ reset
  \/ modifySelectedRows
  \/ onCellEditRequest
  \/ undoRow

Spec == Init /\ [][Next]_vars

\* the same component under a host that hands over the rows of EdgeRows and
\* the callbacks of EdgeCallbacks
NextEdge ==
  \/ GridReady
  \/ Render
  \/ ToggleSelection
  \/ addRowEdge
  \/ deleteSelectedRows
  \/ reset
  \/ modifySelectedRowsEdge
  \/ onCellEditRequest
  \/ undoRow

SpecEdge == Init /\ [][NextEdge]_vars

\* the same component under a host that edits two fields of the rows
NextFields ==
  \/ GridReady
  \/ Render
  \/ ToggleSelection
  \/ addRowFields
  \/ deleteSelectedRows
  \/ reset
  \/ modifySelectedRowsFields
  \/ onCellEditRequest
  \/ undoRow

SpecFields == Init /\ [][NextFields]_vars

\* the same component under a host whose callbacks write the identity field
NextIds ==
  \/ GridReady
  \/ Render
  \/ ToggleSelection
  \/ addRowIds
  \/ deleteSelectedRows
  \/ reset
  \/ modifySelectedRowsIds
  \/ onCellEditRequest
  \/ undoRow

SpecIds == Init /\ [][NextIds]_vars

\* the component with undoRow taken as a function of any displayed row
NextUndo ==
  \/ GridReady
  \/ Render
  \/ ToggleSelection
  \/ addRowFields
  \/ deleteSelectedRows
  \/ reset
  \/ modifySelectedRowsFields
  \/ onCellEditRequest
  \/ undoRowDirect

SpecUndo == Init /\ [][NextUndo]_vars

\* the demo page: the grid over INITIAL_DATA and the four toolbar buttons
InitPage ==
  /\ rowData = INITIAL_DATA
  /\ changes = << >>
  /\ nextChanges = << >>
  /\ gridApi = FALSE
  /\ nextGridApi = FALSE
  /\ selected = {}
  /\ last = NoCall

NextPage ==
  \/ GridReady
  \/ Render
  \/ ToggleSelection
  \/ handleAddRow
  \/ deleteSelectedRows
  \/ reset
  \/ modifySelectedRowsFields
  \/ onCellEditRequestPage
  \/ undoRow

SpecPage == InitPage /\ [][NextPage]_vars

(***************************************************************************)
(* Properties.  After a handler call, `last` names the rows and argument   *)
(* it was given, `changes` is the overlay it read and nextChanges the one  *)
(* it left.                                                                *)
(***************************************************************************)
Edited == last.op \in {"modifySelectedRows", "onCellEditRequest"}

\* the call went through updateChanges
Updated == last.calls > 0

\* the rows the call was given
Targets ==
  IF last.op = "addRow" THEN {last.row}
  ELSE LET rows == Displayed IN {rows[i] : i \in last.pos}

\* the row of a call on a single row
Target == CHOOSE row \in Targets : TRUE

\* the row the callback or the cell edit makes of a target row
EditedRow(row) == Apply(last.arg, row)

PreMod(row) == ChangesGet(changes, getRowId(row))
OutMod(row) == ChangesGet(nextChanges, getRowId(row))

\* the view the overlay left by the call projects to
OutView == effectiveRowData(rowData, nextChanges)

\* positions of the base rows carrying the identity of row
BasePositions(row) == {i \in 1..Len(rowData) : NodeId(rowData[i]) = NodeId(row)}

\* no row appended after the base rows carries the identity of row
NotAppended(row) ==
  \A i \in (Len(rowData) + 1)..Len(OutView) : NodeId(OutView[i]) # NodeId(row)

\* C1: whatever handlers have run, the rowData prop holds the same rows, in
\* the same order, with the same field values as at construction.
C1_RowDataUnchanged == rowData = mockInitialData

C1_Witness ==
  /\ last.op = "modifySelectedRows"
  /\ Updated
  /\ \E i \in 1..Len(rowData) :
       /\ rowData[i] \in Targets
       /\ EditedRow(rowData[i]) # rowData[i]
       /\ OutMod(rowData[i]).type = Modified

\* C2: an addRow call that follows another addRow call (or a render) keeps the
\* Added entry of every other identity in the overlay it leaves.
C2_AddRowKeepsEarlierAdds ==
  [][(last'.op = "addRow" /\ (last.op = "addRow" \/ Rendered)) =>
       \A k \in Keys(nextChanges) :
          (k # NodeId(last'.row) /\ ChangesGet(nextChanges, k).type = Added)
             => ChangesGet(nextChanges', k).type = Added]_vars

\* C3: once a handler has called updateChanges, getChanges() returns the
\* overlay that call produced.
C3_GetChangesIsLatest == Updated => getChanges = nextChanges

\* C4: an edit that makes a base row with no entry or a Modified entry equal
\* to its original removes the entry of that identity.
C4_RevertRemovesEntry ==
  (Edited /\ Updated) =>
    \A row \in Targets :
       ( /\ PreMod(row).type \in {"none", Modified}
         /\ HasOriginalRow(rowData, getRowId(row))
         /\ EditedRow(row) = OriginalRow(rowData, getRowId(row)) )
       => ~HasKey(nextChanges, NodeId(row))

C4_Witness ==
  /\ last.op = "onCellEditRequest"
  /\ Updated
  /\ PreMod(Target).type = Modified
  /\ EditedRow(Target) = OriginalRow(rowData, getRowId(Target))
  /\ ~HasKey(nextChanges, NodeId(Target))

C6_AddedStaysAdded ==
  (Edited /\ Updated) =>
    \A row \in Targets :
       PreMod(row).type = Added =>
         /\ OutMod(row).type = Added
         /\ \/ OutMod(row).data = EditedRow(row)
            \/ EditedRow(row) = row /\ OutMod(row) = PreMod(row)

C6_Witness ==
  /\ last.op = "modifySelectedRows"
  /\ \E row \in Targets :
       /\ PreMod(row).type = Added
       /\ EditedRow(row) # row
       /\ OutMod(row) = Modification(Added, EditedRow(row))

\* C7: deleteSelectedRows removes the entry of a selected row that is Added:
\* no Deleted entry is left and no appended row carries that identity.
C7_DeleteAddedRemovesEntry ==
  (last.op = "deleteSelectedRows" /\ Updated) =>
    \A row \in Targets :
       PreMod(row).type = Added =>
         ~HasKey(nextChanges, NodeId(row)) /\ NotAppended(row)

C7_Witness ==
  /\ last.op = "deleteSelectedRows"
  /\ \E row \in Targets :
       PreMod(row).type = Added /\ ~HasKey(nextChanges, NodeId(row))

\* C8: deleteSelectedRows on a selected base row with no entry or a Modified
\* entry leaves a Deleted entry without data, and the view shows the original
\* row at its position.
C8_DeleteBaseRowMarksDeleted ==
  (last.op = "deleteSelectedRows" /\ Updated) =>
    \A row \in Targets :
       (PreMod(row).type \in {"none", Modified} /\ BasePositions(row) # {}) =>
         /\ OutMod(row) = Modification(Deleted, Null)
         /\ \A i \in BasePositions(row) :
              OutView[i] = rowData[i] /\ OutView[i] = mockInitialData[i]

C8_Witness ==
  /\ last.op = "deleteSelectedRows"
  /\ \E row \in Targets :
       /\ PreMod(row).type = Modified
       /\ PreMod(row).data # OriginalRow(rowData, getRowId(row))
       /\ OutMod(row).type = Deleted

C10_UndoRemovesEntry ==
  last.op = "undoRow" =>
    /\ ~HasKey(nextChanges, NodeId(Target))
    /\ NotAppended(Target)
    /\ \A i \in BasePositions(Target) :
         /\ OutView[i] = mockInitialData[i]
         /\ getRowModificationState(nextChanges, OutView[i]) = "none"

C10_Witness ==
  /\ last.op = "undoRow"
  /\ PreMod(Target).type = Deleted
  /\ ~HasKey(nextChanges, NodeId(Target))

\* C11: reset() hands the empty overlay to setChanges and, once, to onChange,
\* and that overlay projects to the base rows, row for row; after the render
\* it schedules, getChanges() is {} and the grid holds the base rows.
C11_ResetEmptiesOverlay ==
  [][ /\ last'.op = "reset" =>
           /\ nextChanges' = << >>
           /\ last'.calls = 1
           /\ last'.snapshot = << >>
           /\ effectiveRowData(rowData', nextChanges') = mockInitialData
      /\ (last.op = "reset" /\ changes' # changes) =>
           /\ changes' = << >>
           /\ effectiveRowData(rowData', changes') = mockInitialData ]_vars

C11_Witness ==
  /\ last.op = "reset"
  /\ nextChanges = << >>
  /\ \E i \in 1..Len(changes) : changes[i][2].type = Added
  /\ \E i \in 1..Len(changes) : changes[i][2].type = Modified
  /\ \E i \in 1..Len(changes) : changes[i][2].type = Deleted

\* C12: addRow(row) leaves, under the identity of row, an Added entry whose
\* data is row, whatever entry was there before.
C12_AddRowSetsAdded ==
  last.op = "addRow" =>
    /\ HasKey(nextChanges, NodeId(last.row))
    /\ OutMod(last.row) = Modification(Added, last.row)

C12_Witness ==
  /\ last.op = "addRow"
  /\ PreMod(last.row).type = Deleted
  /\ OutMod(last.row) = Modification(Added, last.row)

\* C13: the first Len(rowData) rows of the view stand for the base rows in
\* their order: position i holds the data of the Modified entry of base row i
\* when there is one, the base row itself otherwise (a Deleted row included).
C13_BaseRowsInPlace ==
  \A c \in {changes, nextChanges} :
    LET view == effectiveRowData(rowData, c) IN
    /\ Len(view) >= Len(mockInitialData)
    /\ \A i \in 1..Len(mockInitialData) :
         LET m == ChangesGet(c, getRowId(mockInitialData[i])) IN
         view[i] = IF m.type = Modified THEN m.data ELSE mockInitialData[i]

C13_Witness ==
  /\ Rendered
  /\ ChangesGet(changes, getRowId(mockInitialData[1])).type = Deleted
  /\ ChangesGet(changes, getRowId(mockInitialData[2])).type = Modified
  /\ \E i \in 1..Len(changes) : changes[i][2].type = Added
  /\ Displayed[1] = mockInitialData[1]
  /\ Displayed[2] # mockInitialData[2]

\* the rows of the view that follow the base rows
AppendedRows(rd, c) ==
  LET view == effectiveRowData(rd, c) IN
  SubSeq(view, Len(rd) + 1, Len(view))

\* C14: after the base rows the view lists the data of the Added entries in
\* the order of their insertion: addRow of an identity the overlay does not
\* hold puts its row last and leaves the rows appended before it as they were.
C14_AddedInInsertionOrder ==
  [][(last'.op = "addRow" /\ ~HasKey(changes, NodeId(last'.row))) =>
       AppendedRows(rowData', nextChanges')
         = AppendedRows(rowData, changes) \o << last'.row >>]_vars

\* C15: a handler call that changes the overlay calls onChange exactly once,
\* with the overlay the call leaves; a call over several selected rows makes
\* that one call with all of its entries.
C15_OneNotificationPerChange ==
  [][(nextChanges' # nextChanges \/ last'.calls > 0) =>
       /\ last'.calls = 1
       /\ last'.snapshot = nextChanges']_vars

C15_Witness ==
  /\ last.op = "deleteSelectedRows"
  /\ last.pos = {1, 2}
  /\ last.calls = 1
  /\ last.snapshot # changes
  /\ \A i \in {1, 2} :
       ChangesGet(last.snapshot, getRowId(rowData[i])) = Modification(Deleted, Null)

C17_RowWithoutIdRejected ==
  (last.op = "addRow" /\ ~HasField(last.row, idField)) =>
    /\ last.calls = 0
    /\ nextChanges = changes
    /\ ~HasKey(nextChanges, String(Undefined))

\* two rows with the same field names and values, in whatever order
SameFields(a, b) ==
  {a[i] : i \in 1..Len(a)} = {b[i] : i \in 1..Len(b)}

\* C18: every entry of the overlay differs from the base: no Added or Modified
\* entry holds the fields and values of the base row of its identity.
C18_EntriesDifferFromBase ==
  \A c \in {changes, nextChanges} :
    \A i \in 1..Len(c) :
      c[i][2].type \in {Added, Modified} =>
        \A j \in 1..Len(rowData) :
          NodeId(rowData[j]) = c[i][1] => ~SameFields(c[i][2].data, rowData[j])

\* C19: an edit of a base row that leaves the fields and values of its
\* original, in whatever order, removes the entry of that identity.
C19_RevertIgnoresFieldOrder ==
  (Edited /\ Updated) =>
    \A row \in Targets :
       ( /\ PreMod(row).type \in {"none", Modified}
         /\ HasOriginalRow(rowData, getRowId(row))
         /\ SameFields(EditedRow(row), OriginalRow(rowData, getRowId(row))) )
       => ~HasKey(nextChanges, NodeId(row))

\* C20: a cell edit leaves the overlay that modifySelectedRows leaves when the
\* edited row alone is selected and the callback sets the field to newValue.
C20_CellEditSameAsModify ==
  last.op = "onCellEditRequest" =>
    nextChanges = modifyLoop(changes, rowData, << Target >>, last.arg)

\* the row an edit of the identity of row starts from: the data of its Added
\* or Modified entry, the base row otherwise
EffectiveRow(row) ==
  IF PreMod(row).type \in {Added, Modified} THEN PreMod(row).data
  ELSE IF HasOriginalRow(rowData, getRowId(row))
       THEN OriginalRow(rowData, getRowId(row))
  ELSE row

\* C21: an edit is applied to the effective current row of each target, and
\* the entry it leaves holds the complete edited row: Added stays Added, a
\* base row becomes Modified with every change made so far, or loses its entry
\* when the edited row is the original again.
C21_EditsAccumulate ==
  (Edited /\ Updated) =>
    \A row \in Targets :
       PreMod(row).type # Deleted =>
         /\ row = EffectiveRow(row)
         /\ PreMod(row).type = Added =>
              OutMod(row) = Modification(Added, EditedRow(row))
         /\ PreMod(row).type \in {"none", Modified} =>
              IF EditedRow(row) = OriginalRow(rowData, getRowId(row))
              THEN ~HasKey(nextChanges, NodeId(row))
              ELSE OutMod(row) = Modification(Modified, EditedRow(row))

\* C22: each displayed row has one display state, the type of the overlay
\* entry under the string form of its identity or none without such an entry,
\* and its cell holds the Undo button exactly when that state is not none.
C22_DisplayStateFromOverlay ==
  LET rows == Displayed IN
  \A i \in 1..Len(rows) :
    LET k == NodeId(rows[i])
        state == getRowModificationState(changes, rows[i])
    IN
    /\ state \in {"none", Added, Modified, Deleted}
    /\ ~HasKey(changes, k) => state = "none"
    /\ HasKey(changes, k) =>
         \E j \in 1..Len(changes) : changes[j][1] = k /\ changes[j][2].type = state
    /\ undoCellRenderer(changes, rows[i]) <=> HasKey(changes, k)

C22_Witness ==
  /\ Rendered
  /\ Len(Displayed) = 3
  /\ getRowModificationState(changes, Displayed[1]) = Deleted
  /\ getRowModificationState(changes, Displayed[2]) = "none"
  /\ getRowModificationState(changes, Displayed[3]) = Added
  /\ undoCellRenderer(changes, Displayed[1])
  /\ ~undoCellRenderer(changes, Displayed[2])

\* string forms of the identities of the base rows
BaseKeys == {NodeId(rowData[j]) : j \in 1..Len(rowData)}

\* C23: every Added entry is keyed by an identity that no base row has.
C23_AddedKeysNotInBase ==
  \A c \in {changes, nextChanges} :
    \A i \in 1..Len(c) : c[i][2].type = Added => c[i][1] \notin BaseKeys

\* C24: every Modified entry and every Deleted entry is keyed by the identity
\* of a base row.
C24_ModifiedDeletedKeysInBase ==
  \A c \in {changes, nextChanges} :
    \A i \in 1..Len(c) :
      c[i][2].type \in {Modified, Deleted} => c[i][1] \in BaseKeys

\* the field names of a row
Fields(row) == {row[i][1] : i \in 1..Len(row)}

\* C25: a Deleted entry has data null; an Added or Modified entry has a whole
\* row as data, with every field of the rows of the collection.
C25_EntryData ==
  \A c \in {changes, nextChanges} :
    \A i \in 1..Len(c) :
      IF c[i][2].type = Deleted THEN c[i][2].data = Null
      ELSE /\ c[i][2].data # Null
           /\ Fields(c[i][2].data) = Fields(mockInitialData[1])

C25_Witness ==
  /\ last.op = "onCellEditRequest"
  /\ OutMod(Target) = Modification(Modified, EditedRow(Target))
  /\ Fields(OutMod(Target).data) = {"id", "age", "active"}
  /\ \E i \in 1..Len(nextChanges) : nextChanges[i][2] = Modification(Deleted, Null)
  /\ \E i \in 1..Len(nextChanges) : nextChanges[i][2].type = Added

\* C26: deleteSelectedRows and modifySelectedRows called while the handler
\* has no grid API return at once: the overlay stays as it was and onChange
\* is not called.
C26_NotReadyNoop ==
  [][(last'.op \in {"deleteSelectedRows", "modifySelectedRows"} /\ ~gridApi) =>
       /\ nextChanges' = nextChanges
       /\ changes' = changes
       /\ rowData' = rowData
       /\ last'.calls = 0]_vars

C26_Witness ==
  /\ last.op = "deleteSelectedRows"
  /\ ~gridApi
  /\ last.calls = 0
  /\ nextChanges # << >>

\* C27: undoRow on a row whose identity has no entry leaves the overlay as it
\* was, and a second undoRow on the row of a first one changes nothing more.
C27_UndoAbsentNoop ==
  last.op = "undoRow" =>
    /\ ~HasKey(changes, NodeId(Target)) => nextChanges = changes
    /\ undoRowResult(nextChanges, Target) = nextChanges

C27_Witness ==
  /\ last.op = "undoRow"
  /\ ~HasKey(changes, NodeId(Target))
  /\ changes # << >>
  /\ nextChanges = changes
  /\ last.snapshot = changes

\* the base row whose identity has the string form of the identity of row
BaseRowByKey(row) == rowData[CHOOSE i \in BasePositions(row) : TRUE]

\* C28: every operation resolves an identity by its string form: undo and
\* delete act on the entry under that key, and an edit of a row that is not
\* Added is compared with the base row of that key, so it leaves a Modified
\* entry with the edited row or, when equal to the base row, no entry.
C28_KeysByStringForm ==
  /\ last.op = "undoRow" => ~HasKey(nextChanges, NodeId(Target))
  /\ (last.op = "deleteSelectedRows" /\ Updated) =>
       \A row \in Targets :
          IF PreMod(row).type = Added THEN ~HasKey(nextChanges, NodeId(row))
          ELSE OutMod(row) = Modification(Deleted, Null)
  /\ (Edited /\ Updated) =>
       \A row \in Targets :
          (PreMod(row).type \in {"none", Modified} /\ BasePositions(row) # {}) =>
             IF deepEqual(BaseRowByKey(row), EditedRow(row))
             THEN ~HasKey(nextChanges, NodeId(row))
             ELSE OutMod(row) = Modification(Modified, EditedRow(row))

C30_PageAddRowValidates ==
  /\ last.op = "addRow" =>
       /\ getRowId(last.row) \in {NameId(NameTable[n]) : n \in 1..Len(NameTable)}
       /\ \A i \in 1..Len(INITIAL_DATA) :
            getRowId(last.row) # getRowId(INITIAL_DATA[i])
  /\ last.op = "handleAddRow" => last.calls = 0

\* C31: deleteSelectedRows on a ready grid leaves no row selected, so that a
\* deleteSelectedRows called right after it is given no row and leaves the
\* overlay of the first call; modifySelectedRows and undoRow leave the
\* selection as it was.
C31_DeleteClearsSelection ==
  [][ /\ (last'.op = "deleteSelectedRows" /\ last'.calls > 0) => selected' = {}
      /\ (last.op = "deleteSelectedRows" /\ Updated
            /\ last'.op = "deleteSelectedRows") =>
           /\ last'.pos = {}
           /\ nextChanges' = nextChanges
      /\ last'.op \in {"modifySelectedRows", "undoRow"} => selected' = selected ]_vars

\* C32: no two rows of the view have the same identity, in the overlay of the
\* last render and in the one waiting for the next.
C32_UniqueIdentitiesInView ==
  \A c \in {changes, nextChanges} :
    LET view == effectiveRowData(rowData, c) IN
    \A i, j \in 1..Len(view) : i # j => NodeId(view[i]) # NodeId(view[j])

\* C33: the data of every Added or Modified entry carries, in string form,
\* the identity the entry is keyed by.
C33_DataIdentityIsKey ==
  \A c \in {changes, nextChanges} :
    \A i \in 1..Len(c) :
      c[i][2].type \in {Added, Modified} => NodeId(c[i][2].data) = c[i][1]

\* C34: after a cell edit of a displayed row whose entry is not Deleted, the
\* view of the overlay it leaves has, at the position of that row, a row whose
\* edited field is newValue.
C34_CellEditShown ==
  (last.op = "onCellEditRequest" /\ PreMod(Target).type # Deleted) =>
    \A i \in last.pos : RowGet(OutView[i], last.arg[2]) = last.arg[3]

\* string forms of the identities of the rows the call was given
TargetKeys == {NodeId(row) : row \in Targets}

AddedPlace(c, k) ==
  CHOOSE p \in 1..Len(AddedEntries(c)) : AddedEntries(c)[p][1] = k

\* C37: modifySelectedRows or a cell edit on a row whose entry is Added, and
\* addRow for an identity that has an Added entry, leave that entry at its
\* place among the Added entries, so its row keeps its position among the
\* rows the view appends after the base rows.
C37_AddedKeepsPosition ==
  (Updated /\ last.op \in {"modifySelectedRows", "onCellEditRequest", "addRow"}) =>
    \A row \in Targets :
       PreMod(row).type = Added =>
         /\ OutMod(row).type = Added
         /\ AddedPlace(nextChanges, NodeId(row)) = AddedPlace(changes, NodeId(row))
         /\ Len(AddedEntries(nextChanges)) = Len(AddedEntries(changes))
         /\ OutView[Len(rowData) + AddedPlace(changes, NodeId(row))] = OutMod(row).data

C37_Witness ==
  /\ last.op = "onCellEditRequest"
  /\ Updated
  /\ PreMod(Target).type = Added
  /\ Len(AddedEntries(changes)) = 2
  /\ AddedPlace(changes, NodeId(Target)) = 1
  /\ OutMod(Target).data # PreMod(Target).data
  /\ AddedPlace(nextChanges, NodeId(Target)) = 1

====
